---- MODULE Spec2Model ----
(***************************************************************************)
(* Model of the question-answering service of api/app.py: the startup      *)
(* load of the index and metadata, and the POST /api/ handler              *)
(* answer_question_api with its pipeline stages.                           *)
(*                                                                         *)
(* Text is a sequence of strings.  An element is either one character or   *)
(* a literal chunk of the source; whitespace is always a chunk of its own  *)
(* (" " or "\n"), so that strip, replace, startswith, slicing and rsplit   *)
(* work on the elements as the Python methods work on characters.          *)
(***************************************************************************)
EXTENDS Integers, Sequences, FiniteSets, TLC

\* ------------------------------------------------------------------ bounds
NumDocs == 3        \* documents in the metadata table
MaxWords == 2       \* words of a content string given to the snippet rule

\* ------------------------------------------------------- program constants
SnippetCap == 150   \* cleaned_content_snippet[:150]
FallbackMax == 2    \* relevant_docs[:min(2, len(relevant_docs))]
top_k_final == 5    \* retrieve_and_prioritize_documents(..., top_k_final=5)
LinkCount == 2      \* links the sanitizer returns

\* ------------------------------------------------------------ Python values
None == [tag |-> "None"]
Some(v) == [tag |-> "Some", val |-> v]
\* Python truthiness of an optional string: None and "" are false
Falsy(o) == o.tag = "None" \/ o.val = <<>>

IsWs(ch) == ch \in {" ", "\n"}

Rep(ch, n) == [i \in 1..n |-> ch]

\* str.startswith
StartsWith(s, p) == Len(s) >= Len(p) /\ SubSeq(s, 1, Len(p)) = p

\* str.strip()
Strip(s) ==
  LET keep == {i \in 1..Len(s) : ~IsWs(s[i])}
  IN IF keep = {} THEN <<>>
     ELSE SubSeq(s, CHOOSE i \in keep : \A j \in keep : i <= j,
                    CHOOSE i \in keep : \A j \in keep : i >= j)

\* str.replace("\n", " ")
ReplaceNl(s) == [i \in 1..Len(s) |-> IF s[i] = "\n" THEN " " ELSE s[i]]

\* s.rsplit(' ', 1)[0]: the part before the last space, or s when it has none
RSplitHead(s) ==
  LET sp == {i \in 1..Len(s) : s[i] = " "}
  IN IF sp = {} THEN s
     ELSE SubSeq(s, 1, (CHOOSE i \in sp : \A j \in sp : i >= j) - 1)

\* cleaned[:150].rsplit(' ', 1)[0] + '...' if len(cleaned) > 150 else cleaned
Snippet(c) ==
  IF Len(c) > SnippetCap
  THEN RSplitHead(SubSeq(c, 1, SnippetCap)) \o <<".", ".", ".">>
  ELSE c

\* clean_content_for_prompt: runs of whitespace collapse to one space, and
\* the ends are trimmed
Collapse(s) ==
  LET marked == [i \in 1..Len(s) |->
                   [ch |-> IF IsWs(s[i]) THEN " " ELSE s[i],
                    drop |-> IsWs(s[i]) /\ i > 1 /\ IsWs(s[i - 1])]]
      Kept(e) == ~e.drop
      kept == SelectSeq(marked, Kept)
  IN [i \in 1..Len(kept) |-> kept[i].ch]

clean_content_for_prompt(c) == Strip(Collapse(c))

\* ------------------------------------------------------------ the documents
RECURSIVE JoinWords(_, _)
JoinWords(lens, sep) ==
  IF lens = <<>> THEN <<>>
  ELSE IF Len(lens) = 1 THEN Rep("a", lens[1])
  ELSE Rep("a", lens[1]) \o sep \o JoinWords(Tail(lens), sep)

\* The metadata table: document i has a URL of its own and a content.  The
\* contents cover a short text with whitespace to clean, texts over the
\* snippet cap, and a text under it.
DocIds == 1..NumDocs
UrlOf(i) == <<"u", ToString(i)>>
ContentOf(i) ==
  CASE i % 4 = 1 -> <<" ">> \o JoinWords(<<3, 4>>, <<" ", "\n">>)
    [] i % 4 = 2 -> JoinWords(<<3, 150>>, <<" ">>)
    [] i % 4 = 3 -> JoinWords(<<2, 2>>, <<" ">>)
    [] OTHER     -> JoinWords(<<4, 1, 145>>, <<" ">>)
Doc(i) == [url |-> UrlOf(i), content |-> ContentOf(i)]

Min(a, b) == IF a <= b THEN a ELSE b

\* what retrieve_and_prioritize_documents can return: at most top_k_final
\* documents in priority order, each URL once; the empty list is a result
RankedLists ==
  LET lists(n) == {s \in [1..n -> DocIds] : \A i, j \in 1..n : i # j => s[i] # s[j]}
  IN UNION {lists(n) : n \in 0..Min(top_k_final, NumDocs)}

\* ----------------------------------------------------------- the request
JPEG == <<"/", "9", "j", "/">>
PNG == <<"i", "V", "B", "O", "R", "w", "0", "K", "G", "g", "o">>
WEBP == <<"U", "k", "l", "G", "R">>
HTTP == <<"h", "t", "t", "p", ":", "/", "/">>
HTTPS == <<"h", "t", "t", "p", "s", ":", "/", "/">>

\* the image payloads tried: none, the empty string, the three signatures,
\* the two URL schemes, near misses of a signature and of a scheme, and
\* unrecognised bytes
Payloads ==
  {None, Some(<<>>),
   Some(JPEG \o <<"A">>), Some(PNG \o <<"A", "A", "A">>), Some(WEBP),
   Some(HTTP \o <<"e", ".", "c", "/", "x">>), Some(HTTPS \o <<"e", ".", "c", "/", "x">>),
   Some(<<"/", "9", "j", "A">>), Some(<<"A">> \o HTTP), Some(<<"A", "A">>)}

Questions == {None, Some(<<>>), Some(<<"q">>)}

\* the exception messages a failing collaborator can carry
Causes == {"timeout", "key=SECRET"}

\* mime_type with the PNG and WEBP tests exchanged
mime_type_swapped(img) ==
  IF StartsWith(img, JPEG) THEN "image/jpeg"
  ELSE IF StartsWith(img, WEBP) THEN "image/png"
  ELSE IF StartsWith(img, PNG) THEN "image/webp"
  ELSE "application/octet-stream"

\* lines 48-54: the MIME type by the leading characters of the payload
mime_type(img) ==
  IF StartsWith(img, JPEG) THEN "image/jpeg"
  ELSE IF StartsWith(img, PNG) THEN "image/png"
  ELSE IF StartsWith(img, WEBP) THEN "image/webp"
  ELSE "application/octet-stream"

\* lines 46-59: the image reference handed to build_prompt
image_url_for_llm_of(image) ==
  IF Falsy(image) THEN None
  ELSE IF StartsWith(image.val, HTTP) \/ StartsWith(image.val, HTTPS)
       THEN Some(image.val)
       ELSE Some(<<"data:", mime_type(image.val), ";base64,">> \o image.val)

\* ----------------------------------------------------------- the responses
NoResponse == [status |-> 0, body |-> [answer |-> <<>>, links |-> <<>>]]

not_json_response ==
  [status |-> 400, body |-> [error |-> <<"Request must be JSON">>]]
missing_question_response ==
  [status |-> 400, body |-> [error |-> <<"Missing 'question' in request body">>]]
initializing_response ==
  [status |-> 503,
   body |-> [answer |-> <<"Server is still initializing. Please try again in a moment.">>,
             links |-> <<>>]]
\* the empty retrieval reported as an error
no_docs_as_error ==
  [status |-> 500,
   body |-> [answer |-> <<"Sorry, I couldn't find any relevant information in the knowledge base.">>,
             links |-> <<>>]]
\* line 78
no_docs_response ==
  [status |-> 200,
   body |-> [answer |-> <<"Sorry, I couldn't find any relevant information in the knowledge base.">>,
             links |-> <<>>]]

\* error_response without the status
error_response_ok(prefix, e) ==
  [status |-> 200, body |-> [answer |-> <<prefix, e>>, links |-> <<>>]]

\* f"<prefix>: {e}" with an empty link list and status 500
error_response(prefix, e) ==
  [status |-> 500, body |-> [answer |-> <<prefix, e>>, links |-> <<>>]]

EmbedPrefix == "Error generating question embedding: "
RetrievePrefix == "Error retrieving relevant information: "
LLMPrefix == "Error communicating with AI model: "

\* not_loaded with "and" for "or"
not_loaded_both(idx, meta) == idx = "None" /\ meta = "None"

\* line 42
not_loaded(idx, meta) == idx = "None" \/ meta = "None"

\* ------------------------------------------------------- the model's output
\* URLs the model may cite: documents of the table and one foreign URL
CitedUrl(k) == IF k % 3 = 0 THEN <<"x", ToString(k)>> ELSE UrlOf((k % NumDocs) + 1)
LinkCounts == {0, 1, 2, 5}
LLMLinks ==
  {[i \in 1..n |-> [url |-> CitedUrl(i), text |-> <<"t">>]] : n \in LinkCounts}
LLMAnswers ==
  {None, Some(<<>>), Some(<<" ", "o", "k", "\n", "!", " ">>)}
RawResponses ==
  {[kind |-> "notjson", answer |-> None, links |-> <<>>]} \cup
  {[kind |-> "json", answer |-> a, links |-> l] : a \in LLMAnswers, l \in LLMLinks}

\* the link for a document: its URL and the snippet of its cleaned content
doc_link(d) ==
  [url |-> Doc(d).url, text |-> Snippet(clean_content_for_prompt(Doc(d).content))]

\* the sanitizer's link rule: the first 2 links of the model, padded from the
\* ranked documents in priority order, skipping URLs already cited
RECURSIVE PadLinks(_, _)
PadLinks(links, docs) ==
  IF Len(links) >= LinkCount \/ docs = <<>> THEN links
  ELSE IF \E i \in 1..Len(links) : links[i].url = Doc(Head(docs)).url
       THEN PadLinks(links, Tail(docs))
       ELSE PadLinks(Append(links, doc_link(Head(docs))), Tail(docs))

EnforceLinks(links, docs) ==
  PadLinks(SubSeq(links, 1, Min(LinkCount, Len(links))), docs)

\* clean_json_response: None for output that is not JSON, else the parsed
\* object with its links brought to the link count
clean_json_response(raw, docs) ==
  IF raw.kind = "notjson" THEN None
  ELSE Some([answer |-> raw.answer, links |-> EnforceLinks(raw.links, docs)])

\* line 90: not answer_data or not answer_data.get("answer")
needs_fallback(answer_data) ==
  answer_data.tag = "None" \/ Falsy(answer_data.val.answer)

\* fallback_links without the cap of 2
fallback_links_uncapped(docs) ==
  [i \in 1..Len(docs) |-> doc_link(docs[i])]

\* fallback_links taking the last documents instead of the first
fallback_links_last(docs) ==
  [i \in 1..Min(FallbackMax, Len(docs)) |->
     doc_link(docs[Len(docs) - Min(FallbackMax, Len(docs)) + i])]

\* lines 93-98
fallback_links(docs) ==
  [i \in 1..Min(FallbackMax, Len(docs)) |-> doc_link(docs[i])]

FallbackHeader ==
  <<"I couldn't generate a specific answer from the provided context. However, here's some potentially relevant information:", "\n">>

\* lines 100-104
RECURSIVE link_lines(_)
link_lines(links) ==
  IF links = <<>> THEN <<>>
  ELSE <<"- \"">> \o Head(links).text \o <<"\" (Source: ">> \o Head(links).url
         \o <<")", "\n">> \o link_lines(Tail(links))

fallback_answer_text(links) ==
  IF links # <<>> THEN FallbackHeader \o link_lines(links)
  ELSE FallbackHeader \o <<"No relevant specific snippets found to cite.">>

\* lines 90-110
final_response(answer_data, docs) ==
  IF needs_fallback(answer_data)
  THEN [status |-> 200,
        body |-> [answer |-> Strip(fallback_answer_text(fallback_links(docs))),
                  links |-> fallback_links(docs)]]
  ELSE [status |-> 200,
        body |-> [answer |-> Strip(ReplaceNl(answer_data.val.answer.val)),
                  links |-> answer_data.val.links]]

\* ------------------------------------------------------------------- state
VARIABLES
  proc,              \* "starting", "serving" or "exited"
  exit_status,       \* status of sys.exit, -1 while the process lives
  load_calls,        \* calls of load_index_and_metadata
  load_failed,       \* the load raised
  rag_index,         \* module global
  rag_metadata,      \* module global
  served,            \* a request has been received
  pc,                \* position of the handler in the current request
  request,           \* [is_json, question, image]
  image_url_for_llm, \* local of the handler
  relevant_docs,     \* local of the handler
  raw_llm_response,  \* local of the handler
  prompt_image,      \* the image_url argument build_prompt was called with
  response,          \* what the handler returned
  entered,           \* the stages the current request entered, in order
  failed_at,         \* the stage that raised, or "none"
  fallback,          \* the handler took the fallback branch
  prev_failure,      \* the error response of the last request that failed
  sn_pc,             \* the snippet rule on its own: position
  sn_content,        \*   the cleaned content given to it
  sn_out             \*   the snippet

startup == <<proc, exit_status, load_calls, load_failed, rag_index, rag_metadata>>
snip == <<sn_pc, sn_content, sn_out>>
vars == <<proc, exit_status, load_calls, load_failed, rag_index, rag_metadata,
          served, pc, request, image_url_for_llm, relevant_docs,
          raw_llm_response, prompt_image, response, entered, failed_at,
          fallback, prev_failure, sn_pc, sn_content, sn_out>>

NoRequest == [is_json |-> FALSE, question |-> None, image |-> None]
NoRaw == [kind |-> "notjson", answer |-> None, links |-> <<>>]
NotCalled == [tag |-> "NotCalled"]
NoFailure == [stage |-> "none", body |-> NoResponse.body]

InitStartup ==
  /\ proc = "starting"
  /\ exit_status = -1
  /\ load_calls = 0
  /\ load_failed = FALSE
  /\ rag_index = "None"
  /\ rag_metadata = "None"

InitHandler ==
  /\ served = FALSE
  /\ pc = "idle"
  /\ request = NoRequest
  /\ image_url_for_llm = None
  /\ relevant_docs = <<>>
  /\ raw_llm_response = NoRaw
  /\ prompt_image = NotCalled
  /\ response = NoResponse
  /\ entered = <<>>
  /\ failed_at = "none"
  /\ fallback = FALSE
  /\ prev_failure = NoFailure

Init ==
  /\ InitStartup
  /\ InitHandler
  /\ sn_pc = "off"
  /\ sn_content = <<>>
  /\ sn_out = <<>>

\* ---------------------------------------------------------------- startup
\* What load_index_and_metadata can hand back: a pair, either component of
\* which the handler tests against None at line 42.
LoadResults == {<<i, m>> : i \in {"index", "None"}, m \in {"metadata", "None"}}

\* LoadAssets with the exception swallowed: the process goes on to serve
LoadAssets_swallow ==
  /\ proc = "starting"
  /\ load_calls' = load_calls + 1
  /\ \/ \E r \in LoadResults :
          /\ rag_index' = r[1]
          /\ rag_metadata' = r[2]
          /\ proc' = "serving"
          /\ UNCHANGED <<exit_status, load_failed>>
     \/ /\ load_failed' = TRUE
        /\ proc' = "serving"
        /\ UNCHANGED <<exit_status, rag_index, rag_metadata>>
  /\ UNCHANGED <<served, pc, request, image_url_for_llm, relevant_docs,
                 raw_llm_response, prompt_image, response, entered, failed_at,
                 fallback, prev_failure, snip>>

\* lines 113-118: the load at import time; an exception ends the process
LoadAssets ==
  /\ proc = "starting"
  /\ load_calls' = load_calls + 1
  /\ \/ \E r \in LoadResults :
          /\ rag_index' = r[1]
          /\ rag_metadata' = r[2]
          /\ proc' = "serving"
          /\ UNCHANGED <<exit_status, load_failed>>
     \/ /\ load_failed' = TRUE
        /\ proc' = "exited"
        /\ exit_status' = 1
        /\ UNCHANGED <<rag_index, rag_metadata>>
  /\ UNCHANGED <<served, pc, request, image_url_for_llm, relevant_docs,
                 raw_llm_response, prompt_image, response, entered, failed_at,
                 fallback, prev_failure, snip>>

\* ------------------------------------------------------------ the handler
Stages == <<"EMBEDDING", "RETRIEVING", "PROMPTING", "COMPLETING", "SANITIZING", "DONE">>
Terminal == {"DONE", "FAILED", "REJECTED"}

\* the stage classes of the three try blocks
StageClass(stage) ==
  CASE stage = "EMBEDDING" -> "embedding"
    [] stage = "RETRIEVING" -> "retrieval"
    [] stage \in {"PROMPTING", "COMPLETING"} -> "completion"
    [] OTHER -> "none"

\* the handler returns resp
Return(resp, to) ==
  /\ response' = resp
  /\ pc' = to

\* a stage raised e: lines 65-67, 73-75, 83-85
Fail(stage, prefix, e) ==
  /\ Return(error_response(prefix, e), "FAILED")
  /\ failed_at' = stage

\* lines 32-61: a request arrives, is validated, and the image reference is built
Receive ==
  /\ proc = "serving"
  /\ pc = "idle"
  /\ served' = TRUE
  /\ \E j \in BOOLEAN, q \in Questions, img \in Payloads :
       /\ j \/ (q = None /\ img = None)
       /\ request' = [is_json |-> j, question |-> q, image |-> img]
       /\ IF ~j THEN
            /\ Return(not_json_response, "REJECTED")
            /\ UNCHANGED <<image_url_for_llm, entered>>
          ELSE IF Falsy(q) THEN
            /\ Return(missing_question_response, "REJECTED")
            /\ UNCHANGED <<image_url_for_llm, entered>>
          ELSE IF not_loaded(rag_index, rag_metadata) THEN
            /\ Return(initializing_response, "REJECTED")
            /\ UNCHANGED <<image_url_for_llm, entered>>
          ELSE
            /\ image_url_for_llm' = image_url_for_llm_of(img)
            /\ pc' = "EMBEDDING"
            /\ entered' = <<"EMBEDDING">>
            /\ UNCHANGED response
  /\ UNCHANGED <<startup, relevant_docs, raw_llm_response, prompt_image,
                 failed_at, fallback, prev_failure, snip>>

\* Embed whose except branch does not return
Embed_no_return ==
  /\ pc = "EMBEDDING"
  /\ \/ /\ pc' = "RETRIEVING"
        /\ entered' = Append(entered, "RETRIEVING")
        /\ UNCHANGED <<response, failed_at>>
     \/ \E e \in Causes :
          /\ response' = error_response(EmbedPrefix, e)
          /\ failed_at' = "EMBEDDING"
          /\ pc' = "RETRIEVING"
          /\ entered' = Append(entered, "RETRIEVING")
  /\ UNCHANGED <<startup, served, request, image_url_for_llm, relevant_docs,
                 raw_llm_response, prompt_image, fallback, prev_failure, snip>>

\* lines 63-67: get_embedding returns or raises
Embed ==
  /\ pc = "EMBEDDING"
  /\ \/ /\ pc' = "RETRIEVING"
        /\ entered' = Append(entered, "RETRIEVING")
        /\ UNCHANGED <<response, failed_at>>
     \/ \E e \in Causes :
          /\ Fail("EMBEDDING", EmbedPrefix, e)
          /\ UNCHANGED entered
  /\ UNCHANGED <<startup, served, request, image_url_for_llm, relevant_docs,
                 raw_llm_response, prompt_image, fallback, prev_failure, snip>>

\* lines 69-78: retrieve_and_prioritize_documents returns a list or raises
Retrieve ==
  /\ pc = "RETRIEVING"
  /\ \/ \E docs \in RankedLists :
          /\ relevant_docs' = docs
          /\ IF docs = <<>> THEN
               /\ Return(no_docs_response, "DONE")
               /\ entered' = Append(entered, "DONE")
             ELSE
               /\ pc' = "PROMPTING"
               /\ entered' = Append(entered, "PROMPTING")
               /\ UNCHANGED response
          /\ UNCHANGED failed_at
     \/ \E e \in Causes :
          /\ Fail("RETRIEVING", RetrievePrefix, e)
          /\ UNCHANGED <<entered, relevant_docs>>
  /\ UNCHANGED <<startup, served, request, image_url_for_llm, raw_llm_response,
                 prompt_image, fallback, prev_failure, snip>>

\* lines 80-81, 83-85: build_prompt is called with the image reference
BuildPrompt ==
  /\ pc = "PROMPTING"
  /\ prompt_image' = image_url_for_llm
  /\ \/ /\ pc' = "COMPLETING"
        /\ entered' = Append(entered, "COMPLETING")
        /\ UNCHANGED <<response, failed_at>>
     \/ \E e \in Causes :
          /\ Fail("PROMPTING", LLMPrefix, e)
          /\ UNCHANGED entered
  /\ UNCHANGED <<startup, served, request, image_url_for_llm, relevant_docs,
                 raw_llm_response, fallback, prev_failure, snip>>

\* lines 82-85: query_chat_completion returns the raw text or raises
Complete ==
  /\ pc = "COMPLETING"
  /\ \/ \E raw \in RawResponses :
          /\ raw_llm_response' = raw
          /\ pc' = "SANITIZING"
          /\ entered' = Append(entered, "SANITIZING")
          /\ UNCHANGED <<response, failed_at>>
     \/ \E e \in Causes :
          /\ Fail("COMPLETING", LLMPrefix, e)
          /\ UNCHANGED <<entered, raw_llm_response>>
  /\ UNCHANGED <<startup, served, request, image_url_for_llm, relevant_docs,
                 prompt_image, fallback, prev_failure, snip>>

\* lines 88-110: sanitize and answer, by the parsed object or by the fallback
Sanitize ==
  /\ pc = "SANITIZING"
  /\ LET answer_data == clean_json_response(raw_llm_response, relevant_docs)
     IN /\ fallback' = needs_fallback(answer_data)
        /\ Return(final_response(answer_data, relevant_docs), "DONE")
  /\ entered' = Append(entered, "DONE")
  /\ UNCHANGED <<startup, served, request, image_url_for_llm, relevant_docs,
                 raw_llm_response, prompt_image, failed_at, prev_failure, snip>>

\* the handler has returned; the next request starts with fresh locals
NextRequest ==
  /\ pc \in Terminal
  /\ prev_failure' = IF pc = "FAILED"
                     THEN [stage |-> StageClass(failed_at), body |-> response.body]
                     ELSE prev_failure
  /\ pc' = "idle"
  /\ request' = NoRequest
  /\ image_url_for_llm' = None
  /\ relevant_docs' = <<>>
  /\ raw_llm_response' = NoRaw
  /\ prompt_image' = NotCalled
  /\ response' = NoResponse
  /\ entered' = <<>>
  /\ failed_at' = "none"
  /\ fallback' = FALSE
  /\ UNCHANGED <<startup, served, snip>>

Next ==
  \/ LoadAssets
  \/ Receive
  \/ Embed
  \/ Retrieve
  \/ BuildPrompt
  \/ Complete
  \/ Sanitize
  \/ NextRequest

Spec == Init /\ [][Next]_vars

\* ------------------------------------------------- the snippet rule alone
\* cleaned contents: words of these lengths, up to MaxWords of them, joined
\* by single spaces
WordLens == {1, 3, 74, 75, 76, 149, 150, 151}
Contents ==
  UNION {{JoinWords(l, <<" ">>) : l \in [1..n -> WordLens]} : n \in 1..MaxWords}

InitSnippet ==
  /\ InitStartup
  /\ InitHandler
  /\ sn_pc = "in"
  /\ sn_content \in Contents
  /\ sn_out = <<>>

\* line 97 applied to a cleaned content
MakeSnippet ==
  /\ sn_pc = "in"
  /\ sn_out' = Snippet(sn_content)
  /\ sn_pc' = "out"
  /\ UNCHANGED <<startup, served, pc, request, image_url_for_llm, relevant_docs,
                 raw_llm_response, prompt_image, response, entered, failed_at,
                 fallback, prev_failure, sn_content>>

NextSnippet == MakeSnippet

SpecSnippet == InitSnippet /\ [][NextSnippet]_vars

\* ================================================================ claims
Links == response.body.links
Answer == response.body.answer
StageNames == {Stages[i] : i \in 1..Len(Stages)}
StageRank(st) == CHOOSE i \in 1..Len(Stages) : Stages[i] = st
\* sub occurs in s as a run of consecutive elements
Contains(s, sub) ==
  \E i \in 0..(Len(s) - Len(sub)) : SubSeq(s, i + 1, i + Len(sub)) = sub
\* the handler answered 200 after a retrieval that found documents
AnsweredWithDocs == pc = "DONE" /\ response.status = 200 /\ relevant_docs # <<>>
AssetsMissing == rag_index = "None" \/ rag_metadata = "None"

C3_FailureResponse ==
  failed_at # "none" =>
    /\ failed_at \in {"EMBEDDING", "RETRIEVING", "PROMPTING", "COMPLETING"}
    /\ response.status = 500
    /\ ~(response.status \in 200..299)
    /\ DOMAIN response.body = {"answer", "links"}
    /\ Links = <<>>
    /\ Answer # <<>>
    /\ Answer[1] # ""

C3_Witness ==
  /\ failed_at = "COMPLETING"
  /\ pc = "FAILED"
  /\ response.status = 500

\* C4: the stages of a request are entered in the order EMBEDDING,
\* RETRIEVING, PROMPTING, COMPLETING, SANITIZING, DONE, each at most once
\* (the only step that skips stages is the empty retrieval, which goes
\* from RETRIEVING to DONE), and after a stage fails the request is in the
\* terminal failed state with no later stage entered.
C4_StageOrder ==
  /\ \A i \in 1..Len(entered) : entered[i] \in StageNames
  /\ entered # <<>> => entered[1] = "EMBEDDING"
  /\ \A i \in 1..(Len(entered) - 1) :
       \/ StageRank(entered[i + 1]) = StageRank(entered[i]) + 1
       \/ /\ entered[i] = "RETRIEVING"
          /\ entered[i + 1] = "DONE"
          /\ relevant_docs = <<>>
  /\ pc \in StageNames => entered # <<>> /\ entered[Len(entered)] = pc
  /\ failed_at # "none" =>
       /\ pc = "FAILED"
       /\ entered[Len(entered)] = failed_at
  /\ pc = "FAILED" => failed_at # "none"

C4_Witness ==
  /\ pc = "FAILED"
  /\ failed_at = "RETRIEVING"
  /\ entered = <<"EMBEDDING", "RETRIEVING">>

\* C5: a retrieval that succeeds with an empty list ends the request with
\* a 200 response saying nothing relevant was found, with no links, and
\* neither the prompt builder nor the completion nor the sanitizer runs.
C5_EmptyRetrieval ==
  /\ pc \in Terminal
  /\ Len(entered) >= 2
  /\ failed_at # "RETRIEVING"
  /\ relevant_docs = <<>>
  =>
  /\ pc = "DONE"
  /\ failed_at = "none"
  /\ response.status = 200
  /\ Answer = <<"Sorry, I couldn't find any relevant information in the knowledge base.">>
  /\ Links = <<>>
  /\ entered = <<"EMBEDDING", "RETRIEVING", "DONE">>
  /\ prompt_image = NotCalled
  /\ raw_llm_response = NoRaw
  /\ ~fallback

C5_Witness ==
  /\ pc = "DONE"
  /\ relevant_docs = <<>>
  /\ entered = <<"EMBEDDING", "RETRIEVING", "DONE">>

\* C6: two requests that fail at the same stage with different exception
\* causes are answered with the same body.
C6_SameBodyPerStage ==
  pc = "FAILED" /\ prev_failure.stage = StageClass(failed_at) =>
    response.body = prev_failure.body

\* C7: the load runs exactly once, at startup and before any request; a
\* load that raises ends the process with exit status 1 and no request is
\* ever handled; no request runs the load again.
C7_LoadOnce ==
  /\ load_calls <= 1
  /\ proc = "starting" <=> load_calls = 0
  /\ served \/ pc # "idle" => load_calls = 1 /\ ~load_failed /\ proc = "serving"
  /\ load_failed =>
       /\ proc = "exited"
       /\ exit_status = 1
       /\ ~served
       /\ pc = "idle"
       /\ response = NoResponse
  /\ proc = "exited" <=> load_failed

C7_Witness ==
  /\ load_failed
  /\ proc = "exited"
  /\ exit_status = 1
  /\ load_calls = 1

\* C8: once build_prompt has been called, its image reference is: nothing
\* when no image was supplied; the payload itself when it begins with
\* http:// or https://; and otherwise data:<mime>;base64,<payload> with
\* image/jpeg for /9j/, image/png for iVBORw0KGgo, image/webp for UklGR and
\* application/octet-stream for anything else.
C8_ImageReference ==
  prompt_image # NotCalled =>
    IF request.image = None \/ request.image = Some(<<>>)
    THEN prompt_image = None
    ELSE LET p == request.image.val
             url == StartsWith(p, <<"h", "t", "t", "p", ":", "/", "/">>)
                    \/ StartsWith(p, <<"h", "t", "t", "p", "s", ":", "/", "/">>)
             jpeg == StartsWith(p, <<"/", "9", "j", "/">>)
             png == StartsWith(p, <<"i", "V", "B", "O", "R", "w", "0", "K", "G", "g", "o">>)
             webp == StartsWith(p, <<"U", "k", "l", "G", "R">>)
         IN /\ prompt_image.tag = "Some"
            /\ url => prompt_image.val = p
            /\ ~url =>
                 \E m \in {"image/jpeg", "image/png", "image/webp",
                           "application/octet-stream"} :
                   /\ prompt_image.val = <<"data:", m, ";base64,">> \o p
                   /\ m = "image/jpeg" <=> jpeg
                   /\ m = "image/png" <=> png
                   /\ m = "image/webp" <=> webp
                   /\ m = "application/octet-stream" <=> ~(jpeg \/ png \/ webp)

C8_Witness ==
  /\ prompt_image # NotCalled
  /\ request.image = Some(WEBP)
  /\ prompt_image = Some(<<"data:", "image/webp", ";base64,">> \o WEBP)

\* a prefix of length k of c that does not end inside a word
WordBoundary(c, k) ==
  \/ k = 0
  \/ k = Len(c)
  \/ c[k] = " "
  \/ c[k + 1] = " "

\* C9: the snippet of a cleaned content is the content itself when it has
\* at most 150 characters; otherwise it is a prefix of at most 150
\* characters that ends at a word boundary of the content, followed by
\* "...", also when the first 150 characters hold no space.
C9_SnippetAtWordBoundary ==
  sn_pc = "out" =>
    IF Len(sn_content) <= 150
    THEN sn_out = sn_content
    ELSE \E k \in 0..150 :
           /\ sn_out = SubSeq(sn_content, 1, k) \o <<".", ".", ".">>
           /\ WordBoundary(sn_content, k)

\* C10: when the sanitizer's result is empty or has no non-empty answer and
\* at least 2 documents were retrieved, the request ends 200 with exactly
\* two links, the first and the second ranked document in that order, each
\* with the snippet of its cleaned content; the answer text names these two
\* URLs and the URL of no document ranked third or lower.
C10_FallbackTopTwo ==
  pc = "DONE" /\ fallback /\ Len(relevant_docs) >= 2 =>
    /\ response.status = 200
    /\ Len(Links) = 2
    /\ \A i \in 1..2 :
         /\ Links[i].url = UrlOf(relevant_docs[i])
         /\ Links[i].text = Snippet(clean_content_for_prompt(ContentOf(relevant_docs[i])))
         /\ Contains(Answer, <<"- \"">> \o Links[i].text \o <<"\" (Source: ">>
                               \o UrlOf(relevant_docs[i]) \o <<")">>)
    /\ \A i \in 3..Len(relevant_docs) :
         /\ ~Contains(Answer, UrlOf(relevant_docs[i]))
         /\ \A j \in 1..Len(Links) : Links[j].url # UrlOf(relevant_docs[i])

C10_Witness ==
  /\ pc = "DONE"
  /\ fallback
  /\ raw_llm_response.kind = "notjson"
  /\ relevant_docs = <<2, 1, 3>>
  /\ Len(Links) = 2
====
